---- MODULE Spec2Model ----
(***************************************************************************)
(* HMM part-of-speech tagger (s1763241.py): Lidstone-smoothed emission and *)
(* transition models and the Viterbi decoder with its backpointer table.   *)
(*                                                                         *)
(* Arithmetic.  The program stores costs, -log2 of a probability, as       *)
(* floats.  Every probability here is the exact rational                   *)
(* (100*c + 1) / (100*N + bins)  (gamma = 0.01 = 1/100), a cost is the sum *)
(* of the terms -log2(n/d) added into it, and two costs are compared       *)
(* exactly, by the products of their numerators and denominators.  The     *)
(* products exceed 32 bits, so they are naturals in base 10000, least      *)
(* significant digit first.  Floating-point rounding is not modelled.      *)
(***************************************************************************)
EXTENDS Integers, Sequences, FiniteSets, TLC

(***************************************************************************)
(* Bounds                                                                  *)
(***************************************************************************)
MaxTokens == 2      \* tagged words in a training corpus
MaxObsLen == 3      \* words in a sentence passed to tag
MaxSteps  == 3      \* longest decode-table row the model lets tag build

Base == 100 * 100

(***************************************************************************)
(* The vocabulary                                                          *)
(***************************************************************************)
Tags == {"NOUN", "VERB"}
TrainWords == {"Dog", "runs"}
ObsWords == {"dog", "runs"}
START == "<s>"
END == "</s>"

\* str.lower() on the words of the vocabulary
lower(w) == IF w = "Dog" THEN "dog" ELSE w

Range(f) == {f[i] : i \in DOMAIN f}

(***************************************************************************)
(* Naturals in base 10000, least significant digit first, zero = <<>>      *)
(***************************************************************************)
RECURSIVE BigMulCarry(_, _, _)
BigMulCarry(a, k, carry) ==
    IF a = <<>>
    THEN IF carry = 0 THEN <<>> ELSE <<carry>>
    ELSE LET v == a[1] * k + carry
         IN  <<v % Base>> \o BigMulCarry(Tail(a), k, v \div Base)

\* a * k for a digit-sized k
BigMulSmall(a, k) == IF k = 0 THEN <<>> ELSE IF k = 1 THEN a ELSE BigMulCarry(a, k, 0)

RECURSIVE BigLessFrom(_, _, _)
BigLessFrom(a, b, i) ==
    IF i = 0 THEN FALSE
    ELSE IF a[i] # b[i] THEN a[i] < b[i]
    ELSE BigLessFrom(a, b, i - 1)

BigLess(a, b) ==
    IF Len(a) # Len(b) THEN Len(a) < Len(b) ELSE BigLessFrom(a, b, Len(a))

\* a * k^e
RECURSIVE BigMulPower(_, _, _)
BigMulPower(a, k, e) == IF e <= 0 THEN a ELSE BigMulPower(BigMulSmall(a, k), k, e - 1)

\* a times the product of x^e(x) over the x of S with e(x) > 0
RECURSIVE BigMulPowers(_, _, _)
BigMulPowers(a, S, e) ==
    IF S = {} THEN a
    ELSE LET x == CHOOSE y \in S : TRUE
         IN  BigMulPowers(BigMulPower(a, x, e[x]), S \ {x}, e)

(***************************************************************************)
(* Costs.  A cost is a sum of terms -log2(n/d) of probabilities n/d, kept  *)
(* as the numerators and the denominators of its terms: it is the -log2 of *)
(* the product of num over the product of den.                             *)
(***************************************************************************)
\* math.log(p, 2) of a probability <<n, d>> = n/d, negated: the cost of p
NegLog2(p) == [num |-> <<p[1]>>, den |-> <<p[2]>>]

\* c1 + c2 on costs
CostAdd(c1, c2) == [num |-> c1.num \o c2.num, den |-> c1.den \o c2.den]

Occurrences(seq, x) == Cardinality({i \in DOMAIN seq : seq[i] = x})

\* the sign of cost(c1) - cost(c2): the products num(c2) * den(c1) and
\* num(c1) * den(c2) compared after the factors they share are cancelled
CostCompare(c1, c2) ==
    LET left == c2.num \o c1.den
        right == c1.num \o c2.den
        S == {left[i] : i \in DOMAIN left} \cup {right[i] : i \in DOMAIN right}
        excess == [x \in S |-> Occurrences(left, x) - Occurrences(right, x)]
        deficit == [x \in S |-> 0 - excess[x]]
        l == BigMulPowers(<<1>>, S, excess)
        r == BigMulPowers(<<1>>, S, deficit)
    IN  IF l = r THEN 0 ELSE IF BigLess(l, r) THEN 0 - 1 ELSE 1

\* c1 < c2, c1 = c2, c1 <= c2 on costs
CostLess(c1, c2) == c1 # c2 /\ CostCompare(c1, c2) < 0
CostEq(c1, c2) == c1 = c2 \/ CostCompare(c1, c2) = 0
CostLeq(c1, c2) == ~CostLess(c2, c1)

(***************************************************************************)
(* nltk.probability as the program uses it                                 *)
(***************************************************************************)
\* FreqDist: a function from the samples seen to their counts
EmptyFD == [x \in {} |-> 0]

Count(seq, x) == Occurrences(seq, x)

\* ConditionalFreqDist(pairs) for a sequence of <<condition, sample>>
ConditionalFreqDist(pairs) ==
    [c \in {pairs[i][1] : i \in DOMAIN pairs} |->
        [x \in {pairs[i][2] : i \in {j \in DOMAIN pairs : pairs[j][1] = c}} |->
            Count(pairs, <<c, x>>)]]

RECURSIVE SumOver(_, _)
SumOver(f, S) ==
    IF S = {} THEN 0
    ELSE LET x == CHOOSE y \in S : TRUE IN f[x] + SumOver(f, S \ {x})

\* FreqDist.N() and FreqDist.B()
FreqN(f) == SumOver(f, DOMAIN f)
FreqB(f) == Cardinality(DOMAIN f)
FreqCount(f, x) == IF x \in DOMAIN f THEN f[x] ELSE 0

\* LidstoneProbDist(f, 0.01, bins): gamma = 1/100, and the divisor
\* N + bins * gamma, times 100, kept as the estimator keeps it
LidstoneProbDist(f, bins) == [freqdist |-> f, bins |-> bins, divisor |-> 100 * FreqN(f) + bins]

\* lidstone_est without the extra bin: LidstoneProbDist(f, 0.01, f.B())
lidstone_est_nobin(f) == LidstoneProbDist(f, FreqB(f))

\* lidstone_est(f) = LidstoneProbDist(f, 0.01, f.B() + 1)
lidstone_est(f) == LidstoneProbDist(f, FreqB(f) + 1)

\* LidstoneProbDist.prob(sample) = (c + gamma) / divisor, as <<100 * (c + gamma), 100 * divisor>>
prob(pd, x) == <<100 * FreqCount(pd.freqdist, x) + 1, pd.divisor>>

\* ConditionalProbDist(cfd, lidstone_est)
ConditionalProbDist(cfd) == [c \in DOMAIN cfd |-> lidstone_est(cfd[c])]

\* ConditionalProbDist.__getitem__: a missing condition gets the estimator
\* of an empty FreqDist
PDGet(cpd, c) == IF c \in DOMAIN cpd THEN cpd[c] ELSE lidstone_est(EmptyFD)

\* the dictionary after cpd[c] was read
PDTouch(cpd, c) ==
    IF c \in DOMAIN cpd THEN cpd
    ELSE [d \in DOMAIN cpd \cup {c} |-> IF d = c THEN lidstone_est(EmptyFD) ELSE cpd[d]]

(***************************************************************************)
(* Training                                                                *)
(***************************************************************************)
RECURSIVE Flatten(_)
Flatten(ss) == IF ss = <<>> THEN <<>> ELSE Head(ss) \o Flatten(Tail(ss))

\* nltk.util.unique_list: first occurrences, in order
RECURSIVE unique_list(_)
unique_list(xs) ==
    IF xs = <<>> THEN <<>>
    ELSE LET r == unique_list(SubSeq(xs, 1, Len(xs) - 1))
             x == xs[Len(xs)]
         IN  IF x \in Range(r) THEN r ELSE Append(r, x)

\* nltk.bigrams
bigrams(xs) == [i \in 1..(IF Len(xs) = 0 THEN 0 ELSE Len(xs) - 1) |-> <<xs[i], xs[i + 1]>>]

\* emission_model: data = [(tag, word.lower()) ...]
emission_data(td) ==
    LET flat == Flatten(td) IN [i \in DOMAIN flat |-> <<flat[i][2], lower(flat[i][1])>>]

emission_model(td) == ConditionalProbDist(ConditionalFreqDist(emission_data(td)))

emission_states(td) ==
    LET flat == Flatten(td) IN unique_list([i \in DOMAIN flat |-> flat[i][2]])

\* transition_model: the tags of all sentences, each bracketed, in one list
RECURSIVE tags_words(_)
tags_words(td) ==
    IF td = <<>> THEN <<>>
    ELSE <<START>> \o [i \in DOMAIN Head(td) |-> Head(td)[i][2]] \o <<END>>
           \o tags_words(Tail(td))

transition_model(td) == ConditionalProbDist(ConditionalFreqDist(bigrams(tags_words(td))))

(***************************************************************************)
(* Training corpora: non-empty sentences, at most MaxTokens tagged words   *)
(***************************************************************************)
Tokens(words) == {<<w, t>> : w \in words, t \in Tags}

RECURSIVE CorporaOf(_, _)
CorporaOf(words, k) ==
    IF k = 0 THEN {<<>>}
    ELSE UNION {{<<s>> \o c : s \in [1..j -> Tokens(words)], c \in CorporaOf(words, k - j)}
                  : j \in 1..k}

Corpora(words) == UNION {CorporaOf(words, k) : k \in 1..MaxTokens}

VARIABLES train_data, emission_PD, transition_PD, states, viterbi, backpointer,
          call, ret, raised

vars == <<train_data, emission_PD, transition_PD, states, viterbi, backpointer,
          call, ret, raised>>

\* None
None == "None"

\* HMM.__init__
Init ==
    /\ train_data \in Corpora({"Dog"})
    /\ emission_PD = <<>>
    /\ transition_PD = <<>>
    /\ states = <<>>
    /\ viterbi = <<>>
    /\ backpointer = <<>>
    /\ call = [op |-> "__init__"]
    /\ ret = None
    /\ raised = FALSE

\* HMM.train
train ==
    /\ emission_PD' = emission_model(train_data)
    /\ states' = emission_states(train_data)
    /\ transition_PD' = transition_model(train_data)
    /\ call' = [op |-> "train"]
    /\ ret' = None
    /\ raised' = FALSE
    /\ UNCHANGED <<train_data, viterbi, backpointer>>

(***************************************************************************)
(* The decoder                                                             *)
(***************************************************************************)
\* Python list subscripting: list[i] exists for -len <= i < len
HasIndex(list, i) == -Len(list) <= i /\ i < Len(list)
At(list, i) == IF i >= 0 THEN list[i + 1] ELSE list[Len(list) + i + 1]

\* self.viterbi[state][step] / self.backpointer[state][step] can be read
CanRead(table, state, step) == state \in DOMAIN table /\ HasIndex(table[state], step)

\* get_viterbi_value, get_backpointer_value
get_viterbi_value(V, state, step) == At(V[state], step)
get_backpointer_value(B, state, step) == At(B[state], step)

\* - math.log(self.transition_PD[a].prob(b), 2)
tcost(tPD, a, b) == NegLog2(prob(PDGet(tPD, a), b))
\* - math.log(self.emission_PD[s].prob(w), 2)
ecost(ePD, s, w) == NegLog2(prob(PDGet(ePD, s), w))

\* min replaced by a scan that keeps the last item whose key is least
RECURSIVE min_from_last(_, _, _)
min_from_last(items, i, best) ==
    IF i > Len(items) THEN best
    ELSE min_from_last(items, i + 1,
                       IF CostLess(best[1], items[i][1]) THEN best ELSE items[i])

\* min(items, key=lambda item: item[0]): the first item whose key is least
RECURSIVE min_from(_, _, _)
min_from(items, i, best) ==
    IF i > Len(items) THEN best
    ELSE min_from(items, i + 1, IF CostLess(items[i][1], best[1]) THEN items[i] ELSE best)

min_item(items) == min_from(items, 2, items[1])

\* the tables initialise(observation) builds
initialise_viterbi(tPD, ePD, sts, observation) ==
    [s \in Range(sts) |-> <<CostAdd(tcost(tPD, START, s), ecost(ePD, s, observation))>>]

initialise_backpointer(sts) == [s \in Range(sts) |-> <<START>>]

\* tmp_values of tag for step t and current tag s, built from the k-th tag on
RECURSIVE tmp_values_from(_, _, _, _, _, _, _, _)
tmp_values_from(V, tPD, ePD, sts, obs, t, s, k) ==
    IF k > Len(sts) THEN <<>>
    ELSE <<<<CostAdd(CostAdd(get_viterbi_value(V, sts[k], t - 1), tcost(tPD, sts[k], s)),
                     ecost(ePD, s, At(obs, t))),
             sts[k]>>>>
           \o tmp_values_from(V, tPD, ePD, sts, obs, t, s, k + 1)

tmp_values(V, tPD, ePD, sts, obs, t, s) == tmp_values_from(V, tPD, ePD, sts, obs, t, s, 1)

\* the loops of tag from step t, tag number i on: the tables they leave,
\* and whether a read raised
RECURSIVE tag_loop(_, _, _, _, _, _, _, _)
tag_loop(V, B, tPD, ePD, sts, obs, t, i) ==
    IF t > Len(obs) - 1 THEN [viterbi |-> V, backpointer |-> B, raised |-> FALSE]
    ELSE IF i > Len(sts) THEN tag_loop(V, B, tPD, ePD, sts, obs, t + 1, 1)
    ELSE IF \E k \in DOMAIN sts : ~CanRead(V, sts[k], t - 1)
    THEN [viterbi |-> V, backpointer |-> B, raised |-> TRUE]
    ELSE LET s == sts[i]
             min_val == min_item(tmp_values(V, tPD, ePD, sts, obs, t, s))
         IN  IF s \notin DOMAIN B
             THEN [viterbi |-> [V EXCEPT ![s] = Append(@, min_val[1])],
                   backpointer |-> B, raised |-> TRUE]
             ELSE tag_loop([V EXCEPT ![s] = Append(@, min_val[1])],
                           [B EXCEPT ![s] = Append(@, min_val[2])],
                           tPD, ePD, sts, obs, t, i + 1)

\* the termination step's list without the cost of the transition to </s>
RECURSIVE final_values_from_noend(_, _, _, _, _)
final_values_from_noend(V, tPD, sts, obs, k) ==
    IF k > Len(sts) THEN <<>>
    ELSE <<<<get_viterbi_value(V, sts[k], Len(obs) - 1), sts[k]>>>>
           \o final_values_from_noend(V, tPD, sts, obs, k + 1)

\* the termination step's list, built from the k-th tag on
RECURSIVE final_values_from(_, _, _, _, _)
final_values_from(V, tPD, sts, obs, k) ==
    IF k > Len(sts) THEN <<>>
    ELSE <<<<CostAdd(tcost(tPD, sts[k], END), get_viterbi_value(V, sts[k], Len(obs) - 1)),
             sts[k]>>>>
           \o final_values_from(V, tPD, sts, obs, k + 1)

final_values(V, tPD, sts, obs) == final_values_from(V, tPD, sts, obs, 1)

\* the reconstruction loop reading each backpointer one step too early
RECURSIVE reconstruct_early(_, _, _, _)
reconstruct_early(B, obs, tags, step) ==
    IF step <= 0 THEN [tags |-> tags, raised |-> FALSE]
    ELSE LET cur == tags[(Len(obs) - 1 - step) + 1]
         IN  IF ~CanRead(B, cur, step - 1) THEN [tags |-> tags, raised |-> TRUE]
             ELSE reconstruct_early(B, obs,
                                    Append(tags, get_backpointer_value(B, cur, step - 1)),
                                    step - 1)

\* the reconstruction loop stopping one step short: range(n - 1, 1, -1)
RECURSIVE reconstruct_short(_, _, _, _)
reconstruct_short(B, obs, tags, step) ==
    IF step <= 1 THEN [tags |-> tags, raised |-> FALSE]
    ELSE LET cur == tags[(Len(obs) - 1 - step) + 1]
         IN  IF ~CanRead(B, cur, step) THEN [tags |-> tags, raised |-> TRUE]
             ELSE reconstruct_short(B, obs,
                                    Append(tags, get_backpointer_value(B, cur, step)),
                                    step - 1)

\* the reconstruction loop from step on, tags collected last word first
RECURSIVE reconstruct(_, _, _, _)
reconstruct(B, obs, tags, step) ==
    IF step <= 0 THEN [tags |-> tags, raised |-> FALSE]
    ELSE LET cur == tags[(Len(obs) - 1 - step) + 1]
         IN  IF ~CanRead(B, cur, step) THEN [tags |-> tags, raised |-> TRUE]
             ELSE reconstruct(B, obs, Append(tags, get_backpointer_value(B, cur, step)),
                              step - 1)

reverse(xs) == [i \in DOMAIN xs |-> xs[Len(xs) + 1 - i]]

\* tag(observations) run on tables V, B
tag_body(V, B, tPD, ePD, sts, obs) ==
    LET l == tag_loop(V, B, tPD, ePD, sts, obs, 1, 1)
        fail == [viterbi |-> l.viterbi, backpointer |-> l.backpointer,
                 raised |-> TRUE, tags |-> <<>>]
    IN  IF l.raised THEN fail
        ELSE IF sts = <<>> THEN fail
        ELSE IF \E k \in DOMAIN sts : ~CanRead(l.viterbi, sts[k], Len(obs) - 1) THEN fail
        ELSE LET best_last_tag == min_item(final_values(l.viterbi, tPD, sts, obs))[2]
                 r == reconstruct(l.backpointer, obs, <<best_last_tag>>, Len(obs) - 1)
             IN  IF r.raised THEN fail
                 ELSE [viterbi |-> l.viterbi, backpointer |-> l.backpointer,
                       raised |-> FALSE, tags |-> reverse(r.tags)]

\* tag that first initialises the tables from observations[0] itself
tag_run_initialising(V, B, tPD, ePD, sts, obs) ==
    IF obs = <<>> THEN tag_body(V, B, tPD, ePD, sts, obs)
    ELSE tag_body(initialise_viterbi(tPD, ePD, sts, obs[1]), initialise_backpointer(sts),
                  tPD, ePD, sts, obs)

tag_run(V, B, tPD, ePD, sts, obs) == tag_body(V, B, tPD, ePD, sts, obs)

\* sentences passed to tag
RECURSIVE SeqsUpTo(_, _)
SeqsUpTo(S, n) == IF n = 0 THEN {<<>>} ELSE SeqsUpTo(S, n - 1) \cup [1..n -> S]

Observations == SeqsUpTo(ObsWords, MaxObsLen)

\* every row of the table has length n
RowsLen(table, n) == \A s \in DOMAIN table : Len(table[s]) = n

\* the length of the rows of self.viterbi, 0 when it has none
Rows == IF DOMAIN viterbi = {} THEN 0 ELSE Len(viterbi[CHOOSE s \in DOMAIN viterbi : TRUE])

\* initialise that keeps tables it finds already built
initialise_once(observation) ==
    /\ viterbi' = IF DOMAIN viterbi # {} THEN viterbi
                  ELSE initialise_viterbi(transition_PD, emission_PD, states, observation)
    /\ backpointer' = IF DOMAIN backpointer # {} THEN backpointer
                      ELSE initialise_backpointer(states)
    /\ call' = [op |-> "initialise", arg |-> observation, over |-> Rows >= 2]
    /\ ret' = None
    /\ raised' = FALSE
    /\ UNCHANGED <<train_data, emission_PD, transition_PD, states>>

\* initialise that appends step 0 to the rows it finds
initialise_appending(observation) ==
    /\ viterbi' = [s \in Range(states) |->
                      (IF s \in DOMAIN viterbi THEN viterbi[s] ELSE <<>>)
                        \o initialise_viterbi(transition_PD, emission_PD, states,
                                              observation)[s]]
    /\ backpointer' = [s \in Range(states) |->
                          (IF s \in DOMAIN backpointer THEN backpointer[s] ELSE <<>>)
                            \o <<START>>]
    /\ call' = [op |-> "initialise", arg |-> observation, over |-> Rows >= 2]
    /\ ret' = None
    /\ raised' = FALSE
    /\ UNCHANGED <<train_data, emission_PD, transition_PD, states>>

\* HMM.initialise(observation)
initialise(observation) ==
    /\ viterbi' = initialise_viterbi(transition_PD, emission_PD, states, observation)
    /\ backpointer' = initialise_backpointer(states)
    /\ call' = [op |-> "initialise", arg |-> observation, over |-> Rows >= 2]
    /\ ret' = None
    /\ raised' = FALSE
    /\ UNCHANGED <<train_data, emission_PD, transition_PD, states>>

\* HMM.tag(observations)
tag(observations) ==
    /\ \A s \in DOMAIN viterbi :
          Len(viterbi[s]) + (IF Len(observations) = 0 THEN 0 ELSE Len(observations) - 1)
             <= MaxSteps
    /\ LET r == tag_run(viterbi, backpointer, transition_PD, emission_PD, states,
                        observations)
       IN  /\ viterbi' = r.viterbi
           /\ backpointer' = r.backpointer
           /\ raised' = r.raised
           /\ ret' = IF r.raised THEN None ELSE r.tags
    /\ call' = [op |-> "tag", arg |-> observations, rows |-> Rows,
                word |-> IF call.op = "initialise" THEN call.arg ELSE None,
                reinit |-> call.op = "initialise" /\ call.over]
    /\ UNCHANGED <<train_data, emission_PD, transition_PD, states>>

Steps == (0 - 1)..MaxSteps

\* HMM.get_viterbi_value(state, step)
GetViterbiValue(state, step) ==
    /\ raised' = ~CanRead(viterbi, state, step)
    /\ ret' = IF CanRead(viterbi, state, step) THEN get_viterbi_value(viterbi, state, step)
              ELSE None
    /\ call' = [op |-> "get_viterbi_value", arg |-> <<state, step>>, rows |-> Rows,
                after_tag |-> call.op = "tag" /\ Len(call.arg) >= 1 /\ raised]
    /\ UNCHANGED <<train_data, emission_PD, transition_PD, states, viterbi, backpointer>>

\* HMM.get_backpointer_value(state, step)
GetBackpointerValue(state, step) ==
    /\ raised' = ~CanRead(backpointer, state, step)
    /\ ret' = IF CanRead(backpointer, state, step)
              THEN get_backpointer_value(backpointer, state, step)
              ELSE None
    /\ call' = [op |-> "get_backpointer_value", arg |-> <<state, step>>, rows |-> Rows,
                after_tag |-> call.op = "tag" /\ Len(call.arg) >= 1 /\ raised]
    /\ UNCHANGED <<train_data, emission_PD, transition_PD, states, viterbi, backpointer>>

\* math.log(p, 2) of a probability <<c, d>> = c/d
Log2(p) == [pnum |-> p[1], pden |-> p[2]]

\* HMM.elprob(state, word)
elprob(state, word) ==
    /\ raised' = (DOMAIN emission_PD = {})
    /\ ret' = IF DOMAIN emission_PD = {} THEN None
              ELSE Log2(prob(PDGet(emission_PD, state), word))
    /\ emission_PD' = IF DOMAIN emission_PD = {} THEN emission_PD
                      ELSE PDTouch(emission_PD, state)
    /\ call' = [op |-> "elprob", arg |-> <<state, word>>]
    /\ UNCHANGED <<train_data, transition_PD, states, viterbi, backpointer>>

\* HMM.tlprob(state1, state2)
tlprob(state1, state2) ==
    /\ raised' = (DOMAIN transition_PD = {})
    /\ ret' = IF DOMAIN transition_PD = {} THEN None
              ELSE Log2(prob(PDGet(transition_PD, state1), state2))
    /\ transition_PD' = IF DOMAIN transition_PD = {} THEN transition_PD
                        ELSE PDTouch(transition_PD, state1)
    /\ call' = [op |-> "tlprob", arg |-> <<state1, state2>>]
    /\ UNCHANGED <<train_data, emission_PD, states, viterbi, backpointer>>

(***************************************************************************)
(* Specifications                                                          *)
(***************************************************************************)
\* training and decoding
Next ==
    \/ train
    \/ \E w \in ObsWords : initialise(w)
    \/ \E obs \in Observations : tag(obs)

Spec == Init /\ [][Next]_vars

\* decoding and the accessors of the decode tables
ReadObservations == SeqsUpTo({"dog"}, MaxObsLen)

NextRead ==
    \/ train
    \/ \E w \in ObsWords : initialise(w)
    \/ \E obs \in ReadObservations : tag(obs)
    \/ \E s \in Tags, k \in Steps : GetViterbiValue(s, k)
    \/ \E s \in Tags, k \in Steps : GetBackpointerValue(s, k)

SpecRead == Init /\ [][NextRead]_vars

\* training and the accessors of the two models
InitTrain ==
    /\ train_data \in Corpora(TrainWords)
    /\ emission_PD = <<>>
    /\ transition_PD = <<>>
    /\ states = <<>>
    /\ viterbi = <<>>
    /\ backpointer = <<>>
    /\ call = [op |-> "__init__"]
    /\ ret = None
    /\ raised = FALSE

NextTrain ==
    \/ train
    \/ \E s \in Tags, w \in ObsWords : elprob(s, w)
    \/ \E a \in Tags \cup {START, END}, b \in Tags \cup {START, END} : tlprob(a, b)

SpecTrain == InitTrain /\ [][NextTrain]_vars

(***************************************************************************)
(* The states the properties speak of                                      *)
(***************************************************************************)
\* train has run
Trained == DOMAIN transition_PD # {}

\* the last two calls were initialise(sentence[0]) and tag(sentence), for a
\* non-empty sentence and a trained model: a complete decode
Decoded ==
    /\ call.op = "tag"
    /\ Len(call.arg) >= 1
    /\ call.arg[1] = call.word
    /\ Trained

\* the cost of tagging obs with path: <s> -> y_0, every emission, every
\* transition, y_(n-1) -> </s>
RECURSIVE PathCostUpTo(_, _, _)
PathCostUpTo(path, obs, t) ==
    IF t = 1
    THEN CostAdd(tcost(transition_PD, START, path[1]), ecost(emission_PD, path[1], obs[1]))
    ELSE CostAdd(CostAdd(PathCostUpTo(path, obs, t - 1),
                         tcost(transition_PD, path[t - 1], path[t])),
                 ecost(emission_PD, path[t], obs[t]))

PathCost(path, obs) ==
    CostAdd(tcost(transition_PD, path[Len(path)], END), PathCostUpTo(path, obs, Len(obs)))

Paths(n) == [1..n -> Range(states)]

\* C1: Viterbi optimality: the tag sequence a complete decode returns costs no
\* more than any tag sequence of the same length over states.
C1_ViterbiOptimal ==
    Decoded =>
        /\ ~raised
        /\ LET best == PathCost(ret, call.arg)
           IN  \A path \in Paths(Len(call.arg)) : CostLeq(best, PathCost(path, call.arg))

\* a decode of two or more words, over two tags, that returns a sequence
\* changing tag and strictly cheaper than some other sequence
C1_Witness ==
    /\ Decoded
    /\ ~raised
    /\ Len(call.arg) >= 2
    /\ Len(states) = 2
    /\ \E path \in Paths(Len(call.arg)) :
          CostLess(PathCost(ret, call.arg), PathCost(path, call.arg))
    /\ \E t \in 2..Len(ret) : ret[t - 1] # ret[t]

\* C2: a complete decode of n >= 1 words, seen in training or not, raises
\* nothing and returns exactly n tags, each one of states.
C2_LengthAndTags ==
    Decoded =>
        /\ ~raised
        /\ Len(ret) = Len(call.arg)
        /\ \A i \in DOMAIN ret : ret[i] \in Range(states) /\ ret[i] \notin {START, END}

\* the words never seen in training with any tag
Unseen(w) == \A i \in DOMAIN train_data : \A j \in DOMAIN train_data[i] :
                lower(train_data[i][j][1]) # w

\* a one-word decode of an unseen word, and a longest decode with one
C2_Witness ==
    /\ Decoded
    /\ ~raised
    /\ Len(ret) = Len(call.arg)
    /\ \E i \in DOMAIN call.arg : Unseen(call.arg[i])
    /\ Len(call.arg) \in {1, MaxObsLen}

\* C3: tag([]) on a trained model raises and returns no tag sequence, whatever
\* was initialised or decoded before.
C3_EmptySentenceRaises ==
    (call.op = "tag" /\ call.arg = <<>> /\ Trained) => raised

\* the lengths the rows of both tables have
BothRowsLen(n) == RowsLen(viterbi, n) /\ RowsLen(backpointer, n)

\* C4 as claimed: after any calls of initialise and tag, the rows of both
\* tables are as long as the words processed of the current sentence: 1 after
\* initialise(word), n after tag of an n-word sentence.
C4_RowsAreTheSentence ==
    /\ (call.op = "initialise" /\ Trained) => BothRowsLen(1)
    /\ (call.op = "tag" /\ ~raised /\ Len(call.arg) >= 1 /\ Trained) =>
           BothRowsLen(Len(call.arg))

\* C4: initialise(word) rebuilds both tables, one entry a row, and the
\* backpointer entry is <s>; tag of an n-word sentence appends max(n - 1, 0)
\* entries to the rows it finds and resets nothing, so that the rows have
\* length n after a complete decode.
C4_RowsRebuiltByInitialise ==
    /\ (call.op = "initialise") =>
           /\ DOMAIN viterbi = Range(states) /\ DOMAIN backpointer = Range(states)
           /\ BothRowsLen(1)
           /\ \A s \in DOMAIN backpointer : backpointer[s] = <<START>>
    /\ (call.op = "tag" /\ ~raised) =>
           BothRowsLen(call.rows + (IF Len(call.arg) = 0 THEN 0 ELSE Len(call.arg) - 1))
    /\ (call.op = "tag" /\ raised) => BothRowsLen(call.rows)
    /\ Decoded => ~raised /\ BothRowsLen(Len(call.arg))

\* a complete decode of the longest sentence made right after initialise
\* discarded the tables of an earlier decode
C4_Witness ==
    /\ Decoded
    /\ call.reinit
    /\ Len(call.arg) = MaxObsLen
    /\ Len(states) = 2
    /\ BothRowsLen(MaxObsLen)

\* what initialise(sentence[0]) and tag(sentence) compute from the trained
\* model alone
Reference(obs) ==
    tag_run(initialise_viterbi(transition_PD, emission_PD, states, obs[1]),
            initialise_backpointer(states), transition_PD, emission_PD, states, obs)

\* C8: a complete decode returns, and leaves in both tables, what the trained
\* model and the sentence alone determine, whatever was initialised or decoded
\* before it.
C8_Deterministic ==
    Decoded =>
        /\ ~raised
        /\ ret = Reference(call.arg).tags
        /\ viterbi = Reference(call.arg).viterbi
        /\ backpointer = Reference(call.arg).backpointer

\* a complete decode of two or more words made right after initialise
\* discarded the tables of an earlier decode of two or more words
C8_Witness ==
    /\ Decoded
    /\ ~raised
    /\ call.reinit
    /\ Len(call.arg) >= 2
    /\ Len(states) = 2

\* the place of a tag in states
Index(sts, x) == CHOOSE k \in DOMAIN sts : sts[k] = x

\* the first place of a tag in the training data
FirstPlace(x) ==
    LET flat == Flatten(train_data)
    IN  CHOOSE i \in DOMAIN flat :
            flat[i][2] = x /\ \A j \in 1..(i - 1) : flat[j][2] # x

\* the candidate cost of reaching tag s at place t from tag p
Candidate(p, s, t) ==
    CostAdd(CostAdd(viterbi[p][t - 1], tcost(transition_PD, p, s)),
            ecost(emission_PD, s, call.arg[t]))

\* the cost of ending the sentence in tag s
FinalCost(s) == CostAdd(tcost(transition_PD, s, END), viterbi[s][Len(call.arg)])

\* p is the earliest tag of states of least cost(p)
EarliestLeast(p, cost(_)) ==
    /\ p \in Range(states)
    /\ \A j \in DOMAIN states :
          /\ CostLeq(cost(p), cost(states[j]))
          /\ j < Index(states, p) => CostLess(cost(p), cost(states[j]))

\* C9: states is in first-occurrence order of the training data; after a
\* complete decode, at every step after the first and for every tag s, the
\* backpointer of s is the earliest tag of states of least candidate cost and
\* the cost of s is that least cost; the tag of the last word is the earliest
\* tag of states of least final cost.
C9_FirstMinimal ==
    /\ Trained =>
          \A i, j \in DOMAIN states :
              i < j => FirstPlace(states[i]) < FirstPlace(states[j])
    /\ (Decoded /\ ~raised) =>
          /\ \A t \in 2..Len(call.arg) : \A s \in Range(states) :
                LET cand(p) == Candidate(p, s, t)
                IN  /\ EarliestLeast(backpointer[s][t], cand)
                    /\ CostEq(viterbi[s][t], cand(backpointer[s][t]))
          /\ EarliestLeast(ret[Len(ret)], FinalCost)

\* a complete decode with VERB before NOUN in states and, at a step after
\* the first and at the end, two tags of the same least cost
C9_Witness ==
    /\ Decoded
    /\ ~raised
    /\ Len(call.arg) >= 2
    /\ states = <<"VERB", "NOUN">>
    /\ \E s \in Range(states) :
          CostEq(Candidate("VERB", s, 2), Candidate("NOUN", s, 2))
    /\ CostEq(FinalCost("VERB"), FinalCost("NOUN"))
    /\ ret[Len(ret)] = "VERB"

\* C10: after a complete decode the last tag returned is the tag the
\* termination step chose, each earlier tag is the backpointer of the tag after
\* it at that tag's step, every backpointer after step 0 is a tag of states and
\* every backpointer at step 0 is <s>.
C10_Reconstruction ==
    (Decoded /\ ~raised) =>
        LET n == Len(call.arg)
        IN  /\ Len(ret) = n
            /\ ret[n] = min_item(final_values(viterbi, transition_PD, states, call.arg))[2]
            /\ \A t \in 2..n : ret[t - 1] = backpointer[ret[t]][t]
            /\ \A s \in Range(states) :
                  /\ backpointer[s][1] = START
                  /\ \A t \in 2..n : backpointer[s][t] \in Range(states)

\* a complete decode of three words or more where the backpointers of the
\* two tags differ at the last step and the tags returned are not all the same
C10_Witness ==
    /\ Decoded
    /\ ~raised
    /\ Len(call.arg) >= 3
    /\ Len(states) = 2
    /\ backpointer["NOUN"][Len(call.arg)] # backpointer["VERB"][Len(call.arg)]
    /\ \E t \in 2..Len(ret) : ret[t - 1] # ret[t]

\* C5: on a trained model whose tables initialise has not built, tag of a
\* non-empty sentence raises and returns nothing, and so does reading a cost
\* or a backpointer at a step the tables do not hold.
C5_UninitialisedRaises ==
    /\ (call.op = "tag" /\ Trained /\ call.rows = 0 /\ Len(call.arg) >= 1) =>
           raised /\ ret = None
    /\ (call.op \in {"get_viterbi_value", "get_backpointer_value"}
          /\ (call.rows = 0 \/ call.arg[2] >= call.rows)) =>
           raised /\ ret = None

\* tag of a non-empty sentence raised on a trained model with no tables, and
\* the read of step 0 made next raised too
C5_Witness ==
    /\ call.op \in {"get_viterbi_value", "get_backpointer_value"}
    /\ Trained
    /\ call.rows = 0
    /\ call.arg[1] \in Range(states)
    /\ call.arg[2] = 0
    /\ call.after_tag
    /\ raised

\* the values a distribution may be asked for
Values == {lower(w) : w \in TrainWords} \cup ObsWords \cup Tags \cup {START, END, "zzunseen"}

\* the number of times tag t is on word w, lowercased, in the training data
EmissionCount(t, w) ==
    LET flat == Flatten(train_data)
    IN  Cardinality({i \in DOMAIN flat : flat[i][2] = t /\ lower(flat[i][1]) = w})

\* pd is the smoothed estimator of the counts count(_) over the values seen
Smoothed(pd, seen, count(_)) ==
    LET N == SumOver([v \in seen |-> count(v)], seen)
        B == Cardinality(seen)
    IN  /\ \A v \in Values :
              LET p == prob(pd, v)
              IN  /\ p[1] = 100 * (IF v \in seen THEN count(v) ELSE 0) + 1
                  /\ p[2] = 100 * N + (B + 1)
                  /\ 0 < p[1] /\ p[1] <= p[2]
        /\ SumOver([v \in seen |-> prob(pd, v)[1]], seen) + 1 = prob(pd, "zzunseen")[2]

\* C6: every conditional distribution of the two models gives the value v the
\* probability (count(v) + 0.01) / (N + (B + 1) * 0.01), which lies in (0, 1];
\* the probabilities of the B values seen and one unseen bin sum to 1; the
\* emission counts are those of the lowercased training words; elprob and
\* tlprob return the logarithm of such a probability, which is <= 0.
C6_SmoothedEstimator ==
    Trained =>
        /\ \A t \in DOMAIN emission_PD :
              LET seen == {w \in Values : EmissionCount(t, w) > 0}
                  count(w) == EmissionCount(t, w)
              IN  Smoothed(emission_PD[t], seen, count)
        /\ \A a \in DOMAIN transition_PD :
              LET f == transition_PD[a].freqdist
                  count(b) == f[b]
              IN  Smoothed(transition_PD[a], DOMAIN f, count)
        /\ (call.op \in {"elprob", "tlprob"}) =>
              ~raised /\ 0 < ret.pnum /\ ret.pnum <= ret.pden

\* tlprob was asked for a transition never seen from a tag seen before two
\* different tags, and elprob can be asked for a tag seen on two different words
C6_Witness ==
    /\ Trained
    /\ call.op = "tlprob"
    /\ ~raised
    /\ call.arg[1] \in DOMAIN transition_PD
    /\ Cardinality(DOMAIN transition_PD[call.arg[1]].freqdist) >= 2
    /\ call.arg[2] \notin DOMAIN transition_PD[call.arg[1]].freqdist
    /\ ret.pnum = 1
    /\ \E t \in DOMAIN emission_PD : Cardinality(DOMAIN emission_PD[t].freqdist) = 2

\* the tags of one training sentence between <s> and </s>
Bracketed(sentence) == <<START>> \o [i \in DOMAIN sentence |-> sentence[i][2]] \o <<END>>

\* the number of places where a is followed by b inside one training sentence
SentenceBigrams(a, b) ==
    LET within(i) == Cardinality({k \in 1..(Len(Bracketed(train_data[i])) - 1) :
                                     /\ Bracketed(train_data[i])[k] = a
                                     /\ Bracketed(train_data[i])[k + 1] = b})
    IN  SumOver([i \in DOMAIN train_data |-> within(i)], DOMAIN train_data)

\* C7: the transition count of every tag bigram (a, b) is the number of places
\* where a is followed by b inside one bracketed training sentence, so that no
\* bigram counted starts with </s> or ends with <s>.
C7_PerSentenceBigrams ==
    Trained =>
        \A a, b \in Tags \cup {START, END} :
            FreqCount(PDGet(transition_PD, a).freqdist, b) = SentenceBigrams(a, b)
====
